---- MODULE Spec2Model ----
(***************************************************************************)
(* A model of src/client.py: the MCP client that bridges the Gemini        *)
(* function-calling interface to the tools of an MCP server.               *)
(*                                                                         *)
(*   Spec        the session: main, chat_loop, process_query, clear_history*)
(*   InvokeSpec  _execute_tool_call / _extract_tool_result as functions of *)
(*               what the tool host's call_tool does                       *)
(*   SchemaSpec  clean_schema / convert_mcp_tools_to_gemini on a heap of   *)
(*               Python dict objects                                       *)
(***************************************************************************)
EXTENDS Integers, Sequences, FiniteSets, TLC

VARIABLES
    \* ---- the session (MCPClient and main) ----
    pc,                     \* where main / chat_loop / process_query stands
    session,                \* self.session and the exit stack: "none", "open", "closed"
    function_declarations,  \* self.function_declarations
    conversation_history,   \* self.conversation_history
    response,               \* process_query: the local `response`
    final_text,             \* process_query: the local `final_text`
    iteration,              \* process_query: the local `iteration`
    function_calls_made,    \* process_query: the local `function_calls_made`
    part,                   \* index of the part the for loops are at
    contents,               \* the `contents` argument of the generate_content call last issued
    returned,               \* what the last process_query call returned ("none" before any)
    raised,                 \* the exception that left main ("none" while there is none)
    \* ---- history variables of the session (observers, never read by the code) ----
    llm_calls,              \* generate_content calls issued by the current query
    inspected,              \* the responses the while loop of the current query has inspected
    envelopes,              \* the envelopes _execute_tool_call returned to the current query
    query_start,            \* Len(conversation_history) when the current query arrived
    queries,                \* queries read so far
    long_query,             \* which query of the session may run long
    short_calls,            \* generate_content calls issued by the other queries
    failures,               \* tool-host call failures so far
    rich,                   \* responses with more than a lone tool request so far
    clears,                 \* 'clear' commands read in a row (counted up to 2)
    cleanups,               \* times cleanup() ran
    \* ---- _execute_tool_call as a function (InvokeSpec) ----
    call_outcome,           \* what session.call_tool did
    invoke_result,          \* what _execute_tool_call did with it
    extracted_result,       \* what _extract_tool_result did, when it was called
    \* ---- clean_schema on the heap (SchemaSpec) ----
    heap,                   \* the dict objects: id -> (key -> value)
    schema_pc,              \* "idle", "build", "converted"
    original,               \* the deep value of tool.inputSchema before the conversion
    parameters              \* the object convert_mcp_tools_to_gemini passes on as `parameters`

session_vars == <<pc, session, function_declarations, conversation_history, response,
                  final_text, iteration, function_calls_made, part, contents,
                  returned, raised, llm_calls, inspected, envelopes, query_start,
                  queries, long_query, short_calls, failures, rich, clears, cleanups>>
invoke_vars == <<call_outcome, invoke_result, extracted_result>>
schema_vars == <<heap, schema_pc, original, parameters>>
vars == <<session_vars, invoke_vars, schema_vars>>

(***************************************************************************)
(* Python values, tagged by their type.                                    *)
(***************************************************************************)
PyNone == [t |-> "None"]
PyStr(s) == [t |-> "str", v |-> s]
PyInt(n) == [t |-> "int", n |-> n]
PyList(xs) == [t |-> "list", items |-> xs]
PyDict(d) == [t |-> "dict", d |-> d]

IsStr(x) == x.t = "str"
IsList(x) == x.t = "list"

(***************************************************************************)
(* json.loads on the texts a tool host sends in this model.  A call either *)
(* returns the parsed value or raises; DeepJson stands for '[' * 100000,   *)
(* on which CPython's decoder raises RecursionError, which is neither a    *)
(* JSONDecodeError nor a TypeError.                                        *)
(***************************************************************************)
DeepJson == "[[[[[[[[[[[[[[[["
WidgetJson == "{\"name\": \"widget\"}"
TwiceEncoded == "\"\\\"[1]\\\"\""

Texts == {WidgetJson, "[1]", "[2, 3]", "\"[1]\"", TwiceEncoded, "hello", DeepJson}

Returns(v) == [ok |-> TRUE, val |-> v]
Raises(cls, msg) == [ok |-> FALSE, cls |-> cls, msg |-> msg]

JsonLoads(x) ==
    IF ~IsStr(x)
    THEN Raises("TypeError", "the JSON object must be str, bytes or bytearray")
    ELSE CASE x.v = WidgetJson -> Returns(PyDict([name |-> PyStr("widget")]))
           [] x.v = "[1]"      -> Returns(PyList(<<PyInt(1)>>))
           [] x.v = "[2, 3]"   -> Returns(PyList(<<PyInt(2), PyInt(3)>>))
           [] x.v = "\"[1]\""  -> Returns(PyStr("[1]"))
           [] x.v = TwiceEncoded -> Returns(PyStr("\"[1]\""))
           [] x.v = "hello"    -> Raises("JSONDecodeError", "Expecting value")
           [] x.v = "7"        -> Returns(PyInt(7))
           [] x.v = "Image()"  -> Raises("JSONDecodeError", "Expecting value")
           [] x.v = DeepJson   -> Raises("RecursionError", "maximum recursion depth exceeded")

\* try: parsed = json.loads(text) ... except (json.JSONDecodeError, TypeError): keep text
ParseOrKeep(x) ==
    LET r == JsonLoads(x)
    IN  IF r.ok THEN r
        ELSE IF r.cls \in {"JSONDecodeError", "TypeError"} THEN Returns(x)
        ELSE r

(***************************************************************************)
(* What session.call_tool hands back.  A result either has no content, or  *)
(* its content is a list of blocks, a string, a dict or something else.    *)
(***************************************************************************)
TextContent(s) == [b |-> "TextContent", text |-> PyStr(s)]
DictBlock(d) == [b |-> "dict", d |-> d]
StrBlock(s) == [b |-> "str", s |-> s]
OtherBlock(s) == [b |-> "other", str |-> s]

ListContent(bs) == [c |-> "list", blocks |-> bs]
StrContent(s) == [c |-> "str", s |-> s]
DictContent(d) == [c |-> "dict", d |-> d]
OtherContent(s, truthy) == [c |-> "other", str |-> s, truthy |-> truthy]

NoResult == [has_content |-> FALSE]
Result(c) == [has_content |-> TRUE, content |-> c]

\* lines 93-126: what one content block contributes to extracted_parts
ExtractBlock(block) ==
    CASE block.b = "TextContent" -> ParseOrKeep(block.text)
      [] block.b = "dict" ->
            IF "text" \in DOMAIN block.d
            THEN ParseOrKeep(block.d["text"])
            ELSE Returns(PyDict(block.d))
      [] block.b = "str" -> ParseOrKeep(PyStr(block.s))
      [] block.b = "other" -> Returns(PyStr(block.str))

\* the for loop of lines 92-126: the parts in block order, or the first exception
RECURSIVE ExtractParts(_)
ExtractParts(blocks) ==
    IF blocks = <<>> THEN Returns(<<>>)
    ELSE LET first == ExtractBlock(Head(blocks))
         IN  IF ~first.ok THEN first
             ELSE LET rest == ExtractParts(Tail(blocks))
                  IN  IF ~rest.ok THEN rest
                      ELSE Returns(<<first.val>> \o rest.val)

RECURSIVE Flatten(_)
Flatten(ps) == IF ps = <<>> THEN <<>> ELSE Head(ps).items \o Flatten(Tail(ps))

\* the parts are never flattened
CombinePartsUnflattened(extracted_parts) ==
    IF Len(extracted_parts) = 1 THEN extracted_parts[1] ELSE PyList(extracted_parts)

\* lines 129-138
CombineParts(extracted_parts) ==
    IF Len(extracted_parts) = 1 THEN extracted_parts[1]
    ELSE IF \A i \in 1..Len(extracted_parts) : IsList(extracted_parts[i])
         THEN PyList(Flatten(extracted_parts))
         ELSE PyList(extracted_parts)

\* _extract_tool_result: the value it returns, or the exception it raises
ExtractToolResult(result) ==
    IF ~result.has_content THEN Returns(PyNone)
    ELSE LET content == result.content
         IN  CASE content.c = "list" /\ Len(content.blocks) > 0 ->
                    LET ps == ExtractParts(content.blocks)
                    IN  IF ps.ok THEN Returns(CombineParts(ps.val)) ELSE ps
               [] content.c = "list" /\ Len(content.blocks) = 0 -> Returns(PyNone)
               [] content.c = "str" -> ParseOrKeep(PyStr(content.s))
               [] content.c = "dict" -> Returns(PyDict(content.d))
               [] content.c = "other" ->
                    Returns(IF content.truthy THEN PyStr(content.str) ELSE PyNone)

(***************************************************************************)
(* _execute_tool_call.  call_tool either returns a result or raises; every *)
(* class it raises here is a subclass of Exception.  The operator gives    *)
(* what the coroutine does: return an envelope, or let an exception out.   *)
(***************************************************************************)
CallReturns(r) == [raised |-> FALSE, result |-> r]
CallRaises(cls, msg) == [raised |-> TRUE, cls |-> cls, msg |-> msg]

ExceptionClasses ==
    {"McpError", "ClosedResourceError", "TypeError", "JSONDecodeError", "RecursionError"}

ResultEnvelope(v) == [result |-> v]
ErrorEnvelope(msg) == [error |-> msg, result |-> PyNone]

\* a handler that catches JSON errors only
HandlerCatchesJsonOnly(cls) == cls \in {"JSONDecodeError"}

\* line 171: except Exception as e
HandlerCatches(cls) == cls \in ExceptionClasses

\* lines 171-173
OnException(cls, msg) ==
    IF HandlerCatches(cls) THEN Returns(ErrorEnvelope(msg)) ELSE Raises(cls, msg)

\* the extracted result goes into the envelope as it is
SuccessEnvelopeUnparsed(extracted) == Returns(ResultEnvelope(extracted))

\* lines 162-170
SuccessEnvelope(extracted) ==
    IF IsStr(extracted)
    THEN LET r == JsonLoads(extracted)
         IN  IF r.ok THEN Returns(ResultEnvelope(r.val))
             ELSE IF r.cls \in {"JSONDecodeError", "TypeError"}
                  THEN Returns(ResultEnvelope(extracted))
                  ELSE OnException(r.cls, r.msg)
    ELSE Returns(ResultEnvelope(extracted))

ExecuteToolCall(outcome) ==
    IF outcome.raised THEN OnException(outcome.cls, outcome.msg)
    ELSE LET x == ExtractToolResult(outcome.result)
         IN  IF x.ok THEN SuccessEnvelope(x.val) ELSE OnException(x.cls, x.msg)

(***************************************************************************)
(* The session: what the LLM answers, the turns of the history.            *)
(***************************************************************************)
MaxQueries == 2         \* queries read in one session
MaxShortCalls == 1      \* generate_content calls of a session outside its long query
MaxOdd == 1             \* events of a session that are a tool-host call that raises or a
                        \* response that carries more than a lone tool request

max_iterations == 10
Sentinel == "No response generated."

TextPart(s) == [kind |-> "text", text |-> s]
CallPart(n) == [kind |-> "function_call", name |-> n, args |-> [id |-> 7]]
ResponsePart(n, env) == [kind |-> "function_response", name |-> n, response |-> env]

Content(role, p) == [role |-> role, parts |-> <<p>>]

\* A response: its candidates, each the parts of its content; or no candidates at all.
NoCandidates == [none |-> TRUE, candidates |-> <<>>]
Candidates(cs) == [none |-> FALSE, candidates |-> cs]
Unset == [unset |-> TRUE]

LoneCall == Candidates(<< <<CallPart("lookup")>> >>)
RichResponses ==
    { Candidates(<< <<TextPart("c"), CallPart("store")>>, <<>>, <<CallPart("lookup")>> >>) }
TextResponses ==
    { Candidates(<< <<TextPart("a")>> >>),
      Candidates(<< <<TextPart("")>> >>) }
Responses == {LoneCall} \cup RichResponses \cup TextResponses

\* what session.call_tool does during a session
WidgetResult == CallReturns(Result(ListContent(<<TextContent(WidgetJson)>>)))
ToolFailure == CallRaises("McpError", "boom")
SessionOutcomes == {WidgetResult, ToolFailure}

RECURSIVE Concat(_)
Concat(ss) == IF ss = <<>> THEN <<>> ELSE Head(ss) \o Concat(Tail(ss))

\* lines 212-214: the parts the nested for loops visit, in order
PartsOf(r) == Concat(r.candidates)

\* " ".join(texts)
RECURSIVE JoinWithSpace(_)
JoinWithSpace(texts) ==
    IF texts = <<>> THEN ""
    ELSE IF Len(texts) = 1 THEN texts[1]
    ELSE texts[1] \o " " \o JoinWithSpace(Tail(texts))

\* "\n".join(texts)
RECURSIVE Join(_)
Join(texts) ==
    IF texts = <<>> THEN ""
    ELSE IF Len(texts) = 1 THEN texts[1]
    ELSE texts[1] \o "\n" \o Join(Tail(texts))

NoReturn == [t |-> "no return"]

IdleInvoke == call_outcome = Unset /\ invoke_result = Unset /\ extracted_result = Unset
IdleSchema == heap = <<>> /\ schema_pc = "idle" /\ original = Unset /\ parameters = 0

\* the client object exists (MCPClient() returned); main is about to connect
SessionInit ==
    /\ pc = "connect"
    /\ session = "none"
    /\ function_declarations = "unset"
    /\ conversation_history = <<>>
    /\ response = Unset
    /\ final_text = <<>>
    /\ iteration = 0
    /\ function_calls_made = FALSE
    /\ part = 0
    /\ contents = <<>>
    /\ returned = NoReturn
    /\ raised = "none"
    /\ llm_calls = 0
    /\ inspected = <<>>
    /\ envelopes = <<>>
    /\ query_start = 0
    /\ queries = 0
    /\ long_query \in 1..MaxQueries
    /\ short_calls = 0
    /\ failures = 0
    /\ rich = 0
    /\ clears = 0
    /\ cleanups = 0

Init == SessionInit /\ IdleInvoke /\ IdleSchema

locals == <<response, final_text, iteration, function_calls_made, part>>
observers == <<llm_calls, inspected, envelopes, query_start, queries, long_query,
               short_calls, failures, rich>>
others == <<invoke_vars, schema_vars>>

\* an exception ends main at once
PropagateSkipsCleanup(cls) ==
    /\ raised' = cls
    /\ pc' = "exited"

\* an exception leaves process_query or connect_to_server: chat_loop does not catch
\* it, and main's finally clause runs cleanup next (lines 351-357)
Propagate(cls) ==
    /\ raised' = cls
    /\ pc' = "cleanup"

\* no query is being processed: the observers of the current query start over
NoCurrentQuery ==
    /\ contents' = <<>>
    /\ llm_calls' = 0
    /\ inspected' = <<>>
    /\ envelopes' = <<>>
    /\ query_start' = 0

\* connect_to_server returns (lines 38-81)
Connect ==
    /\ pc = "connect"
    /\ pc' = "prompt"
    /\ session' = "open"
    /\ function_declarations' = "declared"
    /\ UNCHANGED <<conversation_history, locals, contents, returned, raised, observers,
                   clears, cleanups, others>>

\* connect_to_server raises (the server cannot be launched, the handshake fails)
ConnectFails ==
    /\ pc = "connect"
    /\ Propagate("ConnectError")
    /\ UNCHANGED <<session, function_declarations, conversation_history, locals, contents,
                   returned, observers, clears, cleanups, others>>

\* chat_loop reads 'quit' (lines 287-288)
ReadQuit ==
    /\ pc = "prompt"
    /\ pc' = "cleanup"
    /\ UNCHANGED <<session, function_declarations, conversation_history, locals, contents,
                   returned, raised, observers, clears, cleanups, others>>

\* a clear that keeps the first turn
ClearKeepsFirstTurn ==
    conversation_history' =
        IF conversation_history = <<>> THEN <<>> ELSE <<Head(conversation_history)>>

\* clear_history (line 280)
ClearHistory == conversation_history' = <<>>

\* chat_loop reads 'clear' (lines 289-292)
ReadClear ==
    /\ pc = "prompt"
    /\ ClearHistory
    /\ clears' = IF clears < 2 THEN clears + 1 ELSE clears
    /\ NoCurrentQuery
    /\ UNCHANGED <<pc, session, function_declarations, locals, returned, raised, queries,
                   long_query, short_calls, failures, rich, cleanups, others>>

\* generate_content is called with the history (lines 193-199 and 257-263)
IssueGenerate(history) ==
    /\ contents' = history
    /\ llm_calls' = llm_calls + 1
    /\ short_calls' = IF queries = long_query THEN short_calls ELSE short_calls + 1

\* chat_loop reads a query; process_query appends the user turn and calls the LLM
\* (lines 295, 184-193)
ReadQuery(query) ==
    /\ pc = "prompt"
    /\ queries < MaxQueries
    /\ queries' = queries + 1
    /\ queries' # long_query => short_calls < MaxShortCalls
    /\ short_calls' = IF queries' = long_query THEN short_calls ELSE short_calls + 1
    /\ clears' = 0
    /\ query_start' = Len(conversation_history)
    /\ conversation_history' = Append(conversation_history, Content("user", TextPart(query)))
    /\ contents' = conversation_history'
    /\ llm_calls' = 1
    /\ inspected' = <<>>
    /\ envelopes' = <<>>
    /\ returned' = NoReturn
    /\ pc' = "generate_first"
    /\ UNCHANGED <<session, function_declarations, locals, raised, long_query, failures,
                   rich, cleanups, others>>

RequestsTool(r) == \E i \in 1..Len(PartsOf(r)) : PartsOf(r)[i].kind = "function_call"

\* a generate_content call returns (lines 193-204 and 257-263); outside the long
\* query the LLM asks for a tool only while another call is within MaxShortCalls
GenerateReturns(r) ==
    /\ pc \in {"generate_first", "generate_next"}
    /\ (/\ RequestsTool(r)
        /\ queries # long_query
        /\ pc = "generate_first" \/ iteration < max_iterations)
            => short_calls < MaxShortCalls
    /\ IF r \in RichResponses
       THEN rich + failures < MaxOdd /\ rich' = rich + 1
       ELSE rich' = rich
    /\ response' = r
    /\ IF pc = "generate_first"
       THEN final_text' = <<>> /\ iteration' = 0
       ELSE UNCHANGED <<final_text, iteration>>
    /\ pc' = "while"
    /\ UNCHANGED <<session, function_declarations, conversation_history,
                   function_calls_made, part, contents, returned, raised, llm_calls,
                   inspected, envelopes, query_start, queries, long_query, short_calls,
                   failures, clears, cleanups, others>>

\* a generate_content call raises and the turns of the query are taken back
GenerateRaisesRollsBack ==
    /\ pc \in {"generate_first", "generate_next"}
    /\ Propagate("APIError")
    /\ conversation_history' = SubSeq(conversation_history, 1, query_start)
    /\ UNCHANGED <<session, function_declarations, locals, contents,
                   returned, observers, clears, cleanups, others>>

\* a generate_content call raises
GenerateRaises ==
    /\ pc \in {"generate_first", "generate_next"}
    /\ Propagate("APIError")
    /\ UNCHANGED <<session, function_declarations, conversation_history, locals, contents,
                   returned, observers, clears, cleanups, others>>

\* the loop test lets one more iteration through
WhileTestOneMore ==
    /\ pc = "while"
    /\ IF iteration < max_iterations + 1
       THEN /\ iteration' = iteration + 1
            /\ function_calls_made' = FALSE
            /\ inspected' = Append(inspected, response)
            /\ IF response.none
               THEN Propagate("TypeError") /\ part' = part
               ELSE pc' = "for" /\ part' = 1 /\ raised' = raised
       ELSE /\ pc' = "finish"
            /\ UNCHANGED <<iteration, function_calls_made, inspected, part, raised>>
    /\ UNCHANGED <<session, function_declarations, conversation_history, response,
                   final_text, contents, returned, llm_calls, envelopes, query_start,
                   queries, long_query, short_calls, failures, rich, clears, cleanups, others>>

\* the loop test and the head of an iteration (lines 207-212)
WhileTest ==
    /\ pc = "while"
    /\ IF iteration < max_iterations
       THEN /\ iteration' = iteration + 1
            /\ function_calls_made' = FALSE
            /\ inspected' = Append(inspected, response)
            /\ IF response.none
               THEN Propagate("TypeError") /\ part' = part
               ELSE pc' = "for" /\ part' = 1 /\ raised' = raised
       ELSE /\ pc' = "finish"
            /\ UNCHANGED <<iteration, function_calls_made, inspected, part, raised>>
    /\ UNCHANGED <<session, function_declarations, conversation_history, response,
                   final_text, contents, returned, llm_calls, envelopes, query_start,
                   queries, long_query, short_calls, failures, rich, clears, cleanups, others>>

AtPart == pc = "for" /\ part <= Len(PartsOf(response))
ThisPart == PartsOf(response)[part]

\* the for loop stays on a part that is no function call
ForTextStuck ==
    /\ AtPart
    /\ ThisPart.kind # "function_call"
    /\ UNCHANGED vars

\* a part that is no function call (lines 247-250)
ForText ==
    /\ AtPart
    /\ ThisPart.kind # "function_call"
    /\ final_text' = IF ThisPart.text # "" THEN Append(final_text, ThisPart.text)
                     ELSE final_text
    /\ part' = part + 1
    /\ UNCHANGED <<pc, session, function_declarations, conversation_history, response,
                   iteration, function_calls_made, contents, returned, raised, observers,
                   clears, cleanups, others>>

\* a function call part: _execute_tool_call is awaited (lines 216-226)
ForCall ==
    /\ AtPart
    /\ ThisPart.kind = "function_call"
    /\ pc' = "call_tool"
    /\ UNCHANGED <<session, function_declarations, conversation_history, locals, contents,
                   returned, raised, observers, clears, cleanups, others>>

\* the response is appended without the function call
AppendOnlyResponse(history, fc, env) ==
    Append(history, Content("tool", ResponsePart(fc.name, env)))

\* the response is appended before the function call
AppendResponseThenCall(history, fc, env) ==
    history \o <<Content("tool", ResponsePart(fc.name, env)), Content("model", fc)>>

\* lines 241-244: the function call and its response are appended
AppendCallAndResponse(history, fc, env) ==
    history \o <<Content("model", fc), Content("tool", ResponsePart(fc.name, env))>>

\* _execute_tool_call is done (lines 226-246)
ToolReturns(outcome) ==
    /\ pc = "call_tool"
    /\ IF outcome.raised
       THEN rich + failures < MaxOdd /\ failures' = failures + 1
       ELSE failures' = failures
    /\ LET r == ExecuteToolCall(outcome)
       IN  IF r.ok
           THEN /\ conversation_history' =
                        AppendCallAndResponse(conversation_history, ThisPart, r.val)
                /\ envelopes' = Append(envelopes, r.val)
                /\ function_calls_made' = TRUE
                /\ part' = part + 1
                /\ pc' = "for"
                /\ raised' = raised
           ELSE /\ Propagate(r.cls)
                /\ UNCHANGED <<conversation_history, envelopes, function_calls_made, part>>
    /\ UNCHANGED <<session, function_declarations, response, final_text, iteration,
                   contents, returned, llm_calls, inspected, query_start, queries,
                   long_query, short_calls, rich, clears, cleanups, others>>

\* the for loops are through (lines 252-263): break, or ask the LLM again
ForEnd ==
    /\ pc = "for"
    /\ part > Len(PartsOf(response))
    /\ IF ~function_calls_made
       THEN pc' = "finish" /\ UNCHANGED <<contents, llm_calls, short_calls>>
       ELSE pc' = "generate_next" /\ IssueGenerate(conversation_history)
    /\ UNCHANGED <<session, function_declarations, conversation_history, locals, returned,
                   raised, inspected, envelopes, query_start, queries, long_query,
                   failures, rich, clears, cleanups, others>>

\* the final turn overwrites the last turn
FinalHistoryOverwrites(history, texts) ==
    IF texts # <<>>
    THEN Append(SubSeq(history, 1, Len(history) - 1), Content("model", TextPart(Join(texts))))
    ELSE history

\* lines 266-273
FinalHistory(history, texts) ==
    IF texts # <<>> THEN Append(history, Content("model", TextPart(Join(texts))))
    ELSE history

\* no sentinel
ReturnValueNoSentinel(texts) == Join(texts)

\* line 276
ReturnValue(texts) == IF texts # <<>> THEN Join(texts) ELSE Sentinel

\* process_query returns and chat_loop prints (lines 265-276, 296)
Finish ==
    /\ pc = "finish"
    /\ conversation_history' = FinalHistory(conversation_history, final_text)
    /\ returned' = PyStr(ReturnValue(final_text))
    /\ pc' = "prompt"
    /\ UNCHANGED <<session, function_declarations, locals, contents, raised, observers,
                   clears, cleanups, others>>

\* cleanup() in main's finally clause (lines 298-300, 355-357)
Cleanup ==
    /\ pc = "cleanup"
    /\ session' = "closed"
    /\ cleanups' = cleanups + 1
    /\ pc' = "exited"
    /\ UNCHANGED <<function_declarations, conversation_history, locals, contents,
                   returned, raised, observers, clears, others>>

Next ==
    \/ Connect
    \/ ConnectFails
    \/ ReadQuit
    \/ ReadClear
    \/ ReadQuery("q")
    \/ \E r \in Responses : GenerateReturns(r)
    \/ GenerateRaises
    \/ WhileTest
    \/ ForText
    \/ ForCall
    \/ \E outcome \in SessionOutcomes : ToolReturns(outcome)
    \/ ForEnd
    \/ Finish
    \/ Cleanup

Spec == Init /\ [][Next]_vars

\* the steps of process_query that need nothing but the event loop running the
\* coroutine, an LLM call that returns and a tool-host call that returns
QuerySteps ==
    \/ \E r \in Responses : GenerateReturns(r)
    \/ WhileTest
    \/ ForText
    \/ ForCall
    \/ \E outcome \in SessionOutcomes : ToolReturns(outcome)
    \/ ForEnd
    \/ Finish

\* asyncio.run drives main to its end: a coroutine that can go on does go on, and
\* cleanup runs when main reaches its finally clause
LiveSpec == Init /\ [][Next]_vars /\ WF_vars(QuerySteps) /\ WF_vars(Cleanup)

(***************************************************************************)
(* InvokeSpec: _execute_tool_call on every outcome of call_tool within the *)
(* bounds.                                                                 *)
(***************************************************************************)
MaxBlocks == 2          \* content blocks in one tool result

Blocks ==
    {TextContent(t) : t \in Texts}
        \cup {StrBlock("[1]"), StrBlock("hello"), OtherBlock("Image()"),
              DictBlock([text |-> PyStr("[2, 3]")]), DictBlock([text |-> PyInt(7)]),
              DictBlock([text |-> PyList(<<PyInt(4)>>)]),
              DictBlock([name |-> PyStr("widget")])}

BlockSeqs == UNION {[1..k -> Blocks] : k \in 0..MaxBlocks}

Contents ==
    {ListContent(bs) : bs \in BlockSeqs}
        \cup {StrContent(t) : t \in Texts}
        \cup {DictContent([name |-> PyStr("widget")]),
              OtherContent("7", TRUE), OtherContent("None", FALSE)}

CallOutcomes ==
    {CallRaises("McpError", "boom"), CallRaises("ClosedResourceError", ""),
     CallReturns(NoResult)}
        \cup {CallReturns(Result(c)) : c \in Contents}

InvokeInit ==
    /\ SessionInit
    /\ IdleSchema
    /\ call_outcome \in CallOutcomes
    /\ invoke_result = Unset
    /\ extracted_result = Unset

\* await self._execute_tool_call(tool_name, tool_args)
Invoke ==
    /\ invoke_result = Unset
    /\ invoke_result' = ExecuteToolCall(call_outcome)
    /\ extracted_result' = IF call_outcome.raised THEN Unset
                           ELSE ExtractToolResult(call_outcome.result)
    /\ UNCHANGED <<call_outcome, session_vars, schema_vars>>

InvokeNext == Invoke

InvokeSpec == InvokeInit /\ [][InvokeNext]_vars

(***************************************************************************)
(* SchemaSpec: convert_mcp_tools_to_gemini on one tool.  Python dicts are  *)
(* objects: heap[id] is the dict with identity id, a function from its     *)
(* keys to values, and a value is a string or a reference to a dict.       *)
(* heap[1] is tool.inputSchema as list_tools delivered it.                 *)
(***************************************************************************)
MaxDicts == 4           \* dict objects in one tool's inputSchema

Ref(id) == [t |-> "ref", id |-> id]
IsRef(x) == x.t = "ref"
EmptyDict == [k \in {} |-> PyNone]

\* d[key] = val
Put(d, key, val) == [k \in DOMAIN d \cup {key} |-> IF k = key THEN val ELSE d[k]]
\* d.pop(key, None)
Pop(d, key) == [k \in DOMAIN d \ {key} |-> d[k]]

\* the value of an object graph, references resolved
RECURSIVE Deep(_, _)
Deep(h, x) ==
    IF IsRef(x)
    THEN [t |-> "dict", d |-> [k \in DOMAIN h[x.id] |-> Deep(h, h[x.id][k])]]
    ELSE x

\* the dict is the value of a "properties" key: its keys are property names
IsProperties(h, id) ==
    \E j \in 1..Len(h) : "properties" \in DOMAIN h[j] /\ h[j]["properties"] = Ref(id)

LeafKeys == {"title", "type"}
SchemaKeys == {"properties", "items"}
PropertyNames == {"a", "b"}

SchemaInit ==
    /\ SessionInit
    /\ IdleInvoke
    /\ heap = <<EmptyDict>>
    /\ schema_pc = "build"
    /\ original = Unset
    /\ parameters = 0

\* the server's schema has a string under `key` of one of its (sub-)schemas
SetLeaf(id, key) ==
    /\ schema_pc = "build"
    /\ ~IsProperties(heap, id)
    /\ key \notin DOMAIN heap[id]
    /\ heap' = [heap EXCEPT ![id] = Put(@, key, PyStr(IF key = "title" THEN "T" ELSE "string"))]
    /\ UNCHANGED <<schema_pc, original, parameters, session_vars, invoke_vars>>

\* the server's schema has a dict under `key`: a properties mapping or a sub-schema
AddDict(id, key) ==
    /\ schema_pc = "build"
    /\ Len(heap) < MaxDicts
    /\ key \in (IF IsProperties(heap, id) THEN PropertyNames ELSE SchemaKeys)
    /\ key \notin DOMAIN heap[id]
    /\ heap' = Append([heap EXCEPT ![id] = Put(@, key, Ref(Len(heap) + 1))], EmptyDict)
    /\ UNCHANGED <<schema_pc, original, parameters, session_vars, invoke_vars>>

\* a property whose schema is not a dict
SetProperty(id, key) ==
    /\ schema_pc = "build"
    /\ IsProperties(heap, id)
    /\ key \notin DOMAIN heap[id]
    /\ heap' = [heap EXCEPT ![id] = Put(@, key, PyStr("string"))]
    /\ UNCHANGED <<schema_pc, original, parameters, session_vars, invoke_vars>>

\* clean_schema(schema): the heap it leaves (it returns `schema` itself)
RECURSIVE CleanSchema(_, _)
RECURSIVE CleanProperties(_, _, _)
CleanSchema(h, schema) ==
    IF IsRef(schema)
    THEN LET popped == [h EXCEPT ![schema.id] = Pop(@, "title")]
             d == popped[schema.id]
         IN  IF "properties" \in DOMAIN d /\ IsRef(d["properties"])
             THEN CleanProperties(popped, d["properties"].id, DOMAIN popped[d["properties"].id])
             ELSE popped
    ELSE h

\* for key in schema["properties"]: schema["properties"][key] = clean_schema(...)
CleanProperties(h, props, keys) ==
    IF keys = {}
    THEN h
    ELSE LET key == CHOOSE k \in keys : TRUE
             cleaned == CleanSchema(h, h[props][key])
         IN  CleanProperties([cleaned EXCEPT ![props] = Put(@, key, h[props][key])],
                             props, keys \ {key})

\* tool.inputSchema.copy(): a new dict with the same keys and the same values
ShallowCopy(h, id) == Append(h, h[id])

\* parameters = clean_schema(tool.inputSchema.copy())
Convert ==
    /\ schema_pc = "build"
    /\ original' = Deep(heap, Ref(1))
    /\ parameters' = Len(heap) + 1
    /\ heap' = CleanSchema(ShallowCopy(heap, 1), Ref(Len(heap) + 1))
    /\ schema_pc' = "converted"
    /\ UNCHANGED <<session_vars, invoke_vars>>

SchemaNext ==
    \/ \E id \in 1..Len(heap), key \in LeafKeys : SetLeaf(id, key)
    \/ \E id \in 1..Len(heap), key \in SchemaKeys \cup PropertyNames : AddDict(id, key)
    \/ \E id \in 1..Len(heap), key \in PropertyNames : SetProperty(id, key)
    \/ Convert

SchemaSpec == SchemaInit /\ [][SchemaNext]_vars

(***************************************************************************)
(* The claims.                                                             *)
(***************************************************************************)

\* C1: a query issues at most 10 generate_content calls; when every response asks
\* for another tool call, no 11th call is issued.
C1_AtMostTenLlmCalls == llm_calls <= max_iterations

\* C2: _execute_tool_call lets no exception out; when call_tool raises, it returns
\* {error: <the message>, result: None}; when call_tool returns, it returns an
\* envelope with a result entry and no error entry.
C2_InvokeAlwaysWellFormed ==
    invoke_result # Unset =>
        /\ invoke_result.ok
        /\ call_outcome.raised => invoke_result.val = ErrorEnvelope(call_outcome.msg)
        /\ ~call_outcome.raised =>
              /\ "result" \in DOMAIN invoke_result.val
              /\ "error" \notin DOMAIN invoke_result.val

\* ---- what the claims about a query speak of ----
IsCall(p) == p.kind = "function_call"
IsText(p) == p.kind = "text" /\ p.text # ""

CallsOf(r) == SelectSeq(PartsOf(r), IsCall)
TextsOf(r) == LET ps == SelectSeq(PartsOf(r), IsText) IN [i \in 1..Len(ps) |-> ps[i].text]

RECURSIVE AllCalls(_)
AllCalls(rs) == IF rs = <<>> THEN <<>> ELSE CallsOf(Head(rs)) \o AllCalls(Tail(rs))

RECURSIVE AllTexts(_)
AllTexts(rs) == IF rs = <<>> THEN <<>> ELSE TextsOf(Head(rs)) \o AllTexts(Tail(rs))

\* the texts with a newline between neighbours, built from the left
RECURSIVE NewlineJoined(_)
NewlineJoined(texts) ==
    IF texts = <<>> THEN ""
    ELSE IF Len(texts) = 1 THEN texts[1]
    ELSE NewlineJoined(SubSeq(texts, 1, Len(texts) - 1)) \o "\n" \o texts[Len(texts)]

\* for each request, its model turn and then the tool turn with its envelope
RECURSIVE Pairs(_, _)
Pairs(calls, envs) ==
    IF calls = <<>> \/ envs = <<>> THEN <<>>
    ELSE <<Content("model", Head(calls)),
           Content("tool", ResponsePart(Head(calls).name, Head(envs)))>>
             \o Pairs(Tail(calls), Tail(envs))

UserTurn == Content("user", TextPart("q"))
TextTurn(text) == Content("model", TextPart(text))
IsTextTurn(turn) == turn.role = "model" /\ turn.parts[1].kind = "text"
IsToolTurn(turn) == turn.role = "tool"
IsErrorEnvelope(env) == "error" \in DOMAIN env

Front(seq) == SubSeq(seq, 1, Len(seq) - 1)
Last(seq) == seq[Len(seq)]
IsPrefix(a, b) == Len(a) <= Len(b) /\ SubSeq(b, 1, Len(a)) = a

Before == SubSeq(conversation_history, 1, query_start)
QueryTurns == SubSeq(conversation_history, query_start + 1, Len(conversation_history))

\* process_query has just returned to chat_loop
JustReturned == pc = "prompt" /\ llm_calls > 0 /\ returned # NoReturn
LlmCallInFlight == pc \in {"generate_first", "generate_next"}

\* C3: a tool invocation that fails ends neither the query nor the session: its
\* error envelope is appended as a tool turn after its model turn and the loop goes
\* on; when the query returns, every tool turn has been sent to the LLM; at the
\* prompt the connection is open.
C3_FailureStep ==
    pc = "call_tool" /\ failures' = failures + 1
        => /\ pc' = "for"
           /\ raised' = "none"
           /\ session' = "open"
           /\ function_calls_made'
           /\ Len(conversation_history') = Len(conversation_history) + 2
           /\ IsPrefix(conversation_history, conversation_history')
           /\ Last(conversation_history').role = "tool"
           /\ IsErrorEnvelope(Last(conversation_history').parts[1].response)
           /\ conversation_history'[Len(conversation_history) + 1]
                  = Content("model", ThisPart)

C3_AtRest ==
    /\ pc = "prompt" => session = "open" /\ raised = "none"
    /\ pc = "finish" \/ JustReturned =>
          \A i \in 1..Len(conversation_history) :
              IsToolTurn(conversation_history[i]) =>
                  i <= Len(contents) /\ contents[i] = conversation_history[i]
    /\ raised \in {"none", "ConnectError", "APIError"}

C3_ToolFailureNeverEndsSession == [][C3_FailureStep]_vars /\ []C3_AtRest

\* C3 witness: after a tool call failed, the query returned and the next query is
\* being processed on the open connection
C3_Witness ==
    /\ failures > 0
    /\ queries = 2
    /\ pc = "generate_first"
    /\ session = "open"
    /\ \E i \in 1..Len(conversation_history) :
          /\ IsToolTurn(conversation_history[i])
          /\ IsErrorEnvelope(conversation_history[i].parts[1].response)

\* C4: the model asks for k tools over text-free responses and then answers with
\* text only
C4_Case ==
    /\ JustReturned
    /\ inspected # <<>>
    /\ \A i \in 1..(Len(inspected) - 1) :
          RequestsTool(inspected[i]) /\ TextsOf(inspected[i]) = <<>>
    /\ ~RequestsTool(Last(inspected))
    /\ TextsOf(Last(inspected)) # <<>>

\* C4: in that case process_query returns the final text, the query has added to the
\* history the user turn, one model turn and one tool turn per invocation in order,
\* and the model turn with the final text, and nothing else; it has issued one LLM
\* call per response (a single one for k = 0).
C4_ExactHistory ==
    C4_Case =>
        LET final == NewlineJoined(TextsOf(Last(inspected)))
        IN  /\ returned = PyStr(final)
            /\ Len(envelopes) = Len(AllCalls(Front(inspected)))
            /\ QueryTurns = <<UserTurn>> \o Pairs(AllCalls(Front(inspected)), envelopes)
                                \o <<TextTurn(final)>>
            /\ llm_calls = Len(inspected)

\* C4 witness: nine invocations and then the text, in a query that did not start
\* from an empty history
C4_Witness == C4_Case /\ Len(inspected) = max_iterations /\ Len(envelopes) = 9

C4_WitnessNoTool == C4_Case /\ Len(inspected) = 1 /\ query_start > 0

\* the requests of the response under inspection that come before the current part
EarlierCallsOfResponse == SelectSeq(SubSeq(PartsOf(response), 1, part - 1), IsCall)

\* C5: when an LLM call is issued, the history sent holds, after the user turn, the
\* model turn and the tool turn of every invocation requested by the responses
\* inspected so far, in the order requested; and while one invocation is awaited,
\* exactly the invocations requested before it have their two turns.
C5_ToolTurnsBeforeNextCall ==
    /\ LlmCallInFlight =>
          /\ Len(envelopes) = Len(AllCalls(inspected))
          /\ contents = Before \o <<UserTurn>> \o Pairs(AllCalls(inspected), envelopes)
          /\ contents = conversation_history
    /\ pc = "call_tool" =>
          LET earlier == AllCalls(Front(inspected)) \o EarlierCallsOfResponse
          IN  /\ Len(envelopes) = Len(earlier)
              /\ QueryTurns = <<UserTurn>> \o Pairs(earlier, envelopes)

\* C5 witness: the next LLM call after a response that requested two invocations,
\* itself following a response that requested one
C5_Witness ==
    /\ pc = "generate_next"
    /\ Len(CallsOf(Last(inspected))) = 2
    /\ Len(inspected) > 1
    /\ Len(envelopes) = 3

\* C6: every step other than clear_history leaves the history it found as a prefix
\* of the history it leaves.
C6_AppendOnly ==
    [][\/ IsPrefix(conversation_history, conversation_history')
       \/ pc = "prompt" /\ pc' = "prompt" /\ conversation_history' = <<>>]_vars

\* C6 witness: a second query has run to the iteration cap on top of the turns of a
\* first one, with a tool error among them
C6_Witness ==
    /\ JustReturned
    /\ query_start > 0
    /\ Len(inspected) = max_iterations
    /\ RequestsTool(Last(inspected))
    /\ failures > 0

\* C7: process_query returns a string that is not empty; it returns the sentinel
\* exactly when the inspected responses held no non-empty text part, and then the
\* query has appended no model text turn.  (The texts the LLM emits here are other
\* strings than the sentinel's own characters.)
C7_NeverEmptyResult ==
    /\ returned # NoReturn => IsStr(returned) /\ returned.v # ""
    /\ JustReturned =>
          /\ (AllTexts(inspected) = <<>>) <=> (returned.v = Sentinel)
          /\ AllTexts(inspected) = <<>> =>
                \A i \in 1..Len(QueryTurns) : ~IsTextTurn(QueryTurns[i])

\* C7 witness: the sentinel is returned for a response whose only text part is empty
C7_Witness ==
    /\ JustReturned
    /\ returned.v = Sentinel
    /\ \E i \in 1..Len(PartsOf(Last(inspected))) : PartsOf(Last(inspected))[i].kind = "text"

\* C8: when the loop ends with text accumulated, process_query returns the non-empty
\* text parts of all inspected responses joined by newlines in emission order, and
\* the query's last turn, and only that one, is a model text turn carrying the same
\* string; the loop went on after every response that requested a tool, with or
\* without text, until the iteration cap.
C8_JoinedTextReturned ==
    JustReturned =>
        /\ AllTexts(inspected) # <<>> =>
              LET joined == NewlineJoined(AllTexts(inspected))
              IN  /\ returned = PyStr(joined)
                  /\ Last(QueryTurns) = TextTurn(joined)
                  /\ \A i \in 1..(Len(QueryTurns) - 1) : ~IsTextTurn(QueryTurns[i])
        /\ \A i \in 1..(Len(inspected) - 1) : RequestsTool(inspected[i])
        /\ RequestsTool(Last(inspected)) => Len(inspected) = max_iterations

\* C8 witness: text that came alongside tool requests is joined with the text of a
\* later response
C8_Witness ==
    /\ JustReturned
    /\ Len(AllTexts(inspected)) = 2
    /\ TextsOf(inspected[1]) # <<>>
    /\ RequestsTool(inspected[1])
    /\ returned = PyStr("c\na")

\* C9: a 'clear' leaves the history empty whatever it was, and leaves the connection
\* and the tool declarations alone; the query that follows starts from a history
\* that holds its user turn only.
C9_ClearStep ==
    pc = "prompt" /\ pc' = "prompt" =>
        /\ conversation_history' = <<>>
        /\ session' = session
        /\ function_declarations' = function_declarations

C9_QueryAfterClear ==
    pc = "prompt" /\ pc' = "generate_first" /\ clears > 0 =>
        /\ conversation_history' = <<UserTurn>>
        /\ contents' = <<UserTurn>>
        /\ session' = "open"

C9_ClearIdempotent == [][C9_ClearStep /\ C9_QueryAfterClear]_vars

\* C9 witness: a history was cleared twice in a row and the next query is under way
C9_Witness ==
    /\ queries = 2
    /\ pc = "generate_first"
    /\ conversation_history = <<UserTurn>>
    /\ session = "open"
    /\ function_declarations = "declared"

\* the schema with every `title` key of every (sub-)schema removed
RECURSIVE WithoutTitles(_, _)
WithoutTitles(x, properties) ==
    IF x.t = "dict"
    THEN LET keys == IF properties THEN DOMAIN x.d ELSE DOMAIN x.d \ {"title"}
         IN  [t |-> "dict", d |-> [k \in keys |-> WithoutTitles(x.d[k], k = "properties")]]
    ELSE x

\* C10: whatever the nesting of the tool's schema, the `parameters` passed on are the
\* schema with every `title` key removed and every other key kept.
C10_TitlesRemovedAtAnyDepth ==
    schema_pc = "converted" =>
        Deep(heap, Ref(parameters)) = WithoutTitles(original, FALSE)

\* C11: the conversion leaves the tool's own inputSchema as it was: after it, the
\* value of the original object, nested property sub-schemas included, is the value
\* it had before, `title` keys and all.
C11_InputSchemaUnchanged ==
    schema_pc = "converted" => Deep(heap, Ref(1)) = original

\* what the normaliser is to make of a text: the parsed value of valid JSON, else
\* the text itself
ValidJson(x) == IsStr(x) /\ JsonLoads(x).ok
ParsedOrRaw(x) == IF ValidJson(x) THEN JsonLoads(x).val ELSE x

\* the part a content block is to contribute
PartOf(block) ==
    CASE block.b = "TextContent" -> ParsedOrRaw(block.text)
      [] block.b = "dict" ->
            IF "text" \in DOMAIN block.d THEN ParsedOrRaw(block.d["text"])
            ELSE PyDict(block.d)
      [] block.b = "str" -> ParsedOrRaw(PyStr(block.s))
      [] block.b = "other" -> PyStr(block.str)

PartsOfBlocks(blocks) == [i \in 1..Len(blocks) |-> PartOf(blocks[i])]

\* call_tool returned a result whose content is a list of at least one block, and
\* _execute_tool_call has run on it
ListResult ==
    /\ invoke_result # Unset
    /\ ~call_outcome.raised
    /\ call_outcome.result.has_content
    /\ call_outcome.result.content.c = "list"
    /\ Len(call_outcome.result.content.blocks) >= 1

SingleTextBlock ==
    /\ ListResult
    /\ Len(call_outcome.result.content.blocks) = 1
    /\ call_outcome.result.content.blocks[1].b \in {"TextContent", "str"}

\* C13: on a single text block the normaliser returns the parsed value when the
\* text is valid JSON and the text itself otherwise, and whatever the result, no
\* exception leaves the normaliser.
C13_SingleTextParsedOrKept ==
    /\ extracted_result # Unset => extracted_result.ok
    /\ SingleTextBlock =>
          extracted_result = Returns(PartOf(call_outcome.result.content.blocks[1]))

\* equality of two tagged Python values
SameValue(a, b) == a.t = b.t /\ a = b

C14_ModelTurnBeforeToolCall ==
    pc = "call_tool" => Last(conversation_history) = Content("model", ThisPart)

\* C15: a query whose LLM calls all return comes back to the prompt, whatever the
\* responses ask for, and the loop inspects, and runs the tool requests of, at most
\* max_iterations responses.
C15_AtMostTenInspected ==
    /\ Len(inspected) <= max_iterations
    /\ Len(envelopes) <= Len(AllCalls(inspected))

C15_QueryTerminates ==
    /\ []C15_AtMostTenInspected
    /\ (pc = "generate_first") ~> (pc = "prompt" \/ raised = "APIError")

\* C15 witness: a query has returned after every one of its max_iterations
\* inspected responses asked for a tool
C15_Witness ==
    /\ JustReturned
    /\ Len(inspected) = max_iterations
    /\ \A i \in 1..Len(inspected) : RequestsTool(inspected[i])
    /\ Len(envelopes) >= max_iterations

\* C16: once connect_to_server has returned, the chat loop is left on 'quit' only:
\* no exception raised while a query is processed, by a tool-host call or by an LLM
\* call, leaves the loop.
C16_OnlyQuitEndsChatLoop ==
    [][(session = "open" /\ pc # "cleanup" /\ pc' = "cleanup")
            => (pc = "prompt" /\ raised' = "none")]_vars

\* C17: every way out of main, 'quit', a failure of connect_to_server or an
\* exception out of the chat loop, leads to cleanup running, and cleanup has run
\* exactly once when main is left.
C17_AtMostOnce ==
    /\ cleanups <= 1
    /\ pc = "exited" => cleanups = 1 /\ session = "closed"

C17_CleanupExactlyOnce ==
    /\ []C17_AtMostOnce
    /\ (pc = "cleanup") ~> (pc = "exited")

\* C17 witness: main was left by an exception out of the chat loop, after cleanup
C17_Witness ==
    /\ pc = "exited"
    /\ raised = "APIError"
    /\ cleanups = 1
    /\ conversation_history # <<>>

\* the query has returned because of the iteration cap: its last inspected
\* response, the max_iterations-th, still asked for a tool
CapReached ==
    /\ JustReturned
    /\ Len(inspected) = max_iterations
    /\ RequestsTool(Last(inspected))

\* C19: the response of the LLM call issued after the max_iterations-th inspected
\* response is never inspected: no tool it requests is invoked, and its text is
\* neither returned nor appended to the history.
C19_LastResponseDiscarded ==
    /\ llm_calls > max_iterations =>
          /\ Len(inspected) = max_iterations
          /\ pc \notin {"for", "call_tool"}
    /\ CapReached =>
          LET texts == AllTexts(inspected)
          IN  /\ llm_calls = max_iterations + 1
              /\ Len(envelopes) = Len(AllCalls(inspected))
              /\ returned = PyStr(IF texts = <<>> THEN Sentinel ELSE NewlineJoined(texts))
              /\ QueryTurns = <<UserTurn>> \o Pairs(AllCalls(inspected), envelopes)
                                \o (IF texts = <<>> THEN <<>>
                                    ELSE <<TextTurn(NewlineJoined(texts))>>)

\* C19 witness: the discarded response carried a text, and the sentinel was returned
C19_Witness ==
    /\ CapReached
    /\ TextsOf(response) # <<>>
    /\ returned = PyStr(Sentinel)

\* every tool turn of the history comes right after a model turn that carries a
\* request for the same tool
ToolTurnsPaired ==
    \A i \in 1..Len(conversation_history) :
        IsToolTurn(conversation_history[i]) =>
            /\ i > 1
            /\ conversation_history[i - 1].role = "model"
            /\ IsCall(conversation_history[i - 1].parts[1])
            /\ conversation_history[i - 1].parts[1].name = conversation_history[i].parts[1].name

\* C20: when an LLM call of a query raises, the exception leaves process_query and
\* the chat loop, nothing is returned, and the history keeps what the query had
\* appended: its user turn and the model/tool pairs of the invocations done, with
\* no final model text turn; and no tool turn is ever without its model turn.
C20_NoRollbackOnLlmFailure ==
    /\ ToolTurnsPaired
    /\ raised = "APIError" =>
          /\ pc \in {"cleanup", "exited"}
          /\ returned = NoReturn
          /\ QueryTurns = <<UserTurn>> \o Pairs(AllCalls(inspected), envelopes)

\* C20 witness: the LLM call that raised came after two invocations and after a
\* text part had been accumulated
C20_Witness ==
    /\ raised = "APIError"
    /\ Len(envelopes) >= 2
    /\ final_text # <<>>
    /\ query_start > 0

====
